---- MODULE Spec2Model ----
(***************************************************************************)
(* Model of the Jellyfin client library: the error taxonomy (error.rs),    *)
(* the wire model (model.rs), the request builder (request_builder.rs)     *)
(* and the API client (lib.rs).                                            *)
(*                                                                         *)
(* The client's state is its base URL and its optional session.  Each      *)
(* public operation is one action; the server's answer to the request the  *)
(* operation sends is an input of the action.  The last invocation is      *)
(* kept in the state (operation, arguments, requests put on the wire, the  *)
(* answer consumed, what send() returned and what the caller got back).    *)
(***************************************************************************)
EXTENDS Integers, Sequences, FiniteSets, TLC

VARIABLES server_url, auth_info, op, args, wire, response, send_result, result

vars == <<server_url, auth_info, op, args, wire, response, send_result, result>>

(***************************************************************************)
(* Bounds of the model.                                                    *)
(***************************************************************************)
MaxExtra == 2        \* longest extra_params sequence given to get_items
MaxItems == 2        \* longest item list the server returns

(***************************************************************************)
(* Option<T> and Result<T, JellyfinError>.                                 *)
(***************************************************************************)
None == <<>>
Some(x) == <<x>>
IsSome(o) == Len(o) = 1
IsNone(o) == Len(o) = 0
Unwrap(o) == o[1]

Ok(v) == [tag |-> "Ok", val |-> v]
Err(e) == [tag |-> "Err", err |-> e]
IsOk(r) == r.tag = "Ok"
IsErr(r) == r.tag = "Err"
Unit == <<>>

(***************************************************************************)
(* error.rs: the closed set of error kinds.                                *)
(***************************************************************************)
AuthorizationError == [kind |-> "AuthorizationError", text |-> ""]
NotFound == [kind |-> "NotFound", text |-> ""]
ParseError == [kind |-> "ParseError", text |-> ""]
ServerError == [kind |-> "ServerError", text |-> ""]
BadRequest == [kind |-> "BadRequest", text |-> ""]
RequestError(e) == [kind |-> "RequestError", text |-> e]
UnhandledError(s) == [kind |-> "UnhandledError", text |-> s]

\* The status codes the modelled server answers with.
Statuses == {101, 200, 304, 400, 401, 403, 404, 500, 503}

\* StatusCode's reason phrase, for the codes of Statuses.
CanonicalReason(code) ==
    CASE code = 101 -> "Switching Protocols"
      [] code = 200 -> "OK"
      [] code = 304 -> "Not Modified"
      [] code = 400 -> "Bad Request"
      [] code = 401 -> "Unauthorized"
      [] code = 403 -> "Forbidden"
      [] code = 404 -> "Not Found"
      [] code = 500 -> "Internal Server Error"
      [] code = 503 -> "Service Unavailable"
      [] OTHER -> "<unknown status code>"

\* code.to_string(): the number, a space, the reason phrase.
StatusToString(code) == ToString(code) \o " " \o CanonicalReason(code)

FromStatusSwapped(code) ==
    CASE code = 401 -> AuthorizationError
      [] code = 404 -> NotFound
      [] code = 500 -> BadRequest
      [] code = 400 -> ServerError
      [] OTHER -> UnhandledError(StatusToString(code))

\* impl From<StatusCode> for JellyfinError
FromStatus(code) ==
    CASE code = 401 -> AuthorizationError
      [] code = 404 -> NotFound
      [] code = 500 -> ServerError
      [] code = 400 -> BadRequest
      [] OTHER -> UnhandledError(StatusToString(code))

\* impl From<reqwest::Error> for JellyfinError
FromReqwestError(e) == RequestError(e)

\* impl From<url::ParseError> for JellyfinError
FromUrlParseError == ParseError

is_client_error(code) == 400 <= code /\ code < 500
is_server_error(code) == 500 <= code /\ code < 600

(***************************************************************************)
(* The server's answers.  A body is the text received and, when that text  *)
(* is JSON, the document it denotes; broken means that reading the body    *)
(* fails in the transport.                                                 *)
(***************************************************************************)
Body(text, json) == [text |-> text, json |-> json, broken |-> FALSE]
BrokenBody == [text |-> "", json |-> None, broken |-> TRUE]
MalformedBody == Body("<html>", None)

TransportErrors == {"connect"}

Answered(status, body) == [status |-> status, body |-> body, transport_err |-> ""]
Unanswered(e) == [status |-> 0, body |-> BrokenBody, transport_err |-> e]

\* What the server sends with a 4xx or 5xx status.
ErrorBody == Body("error", None)

\* The answers to one request: the transport fails, or the server answers
\* with a status of Statuses; bodies are the bodies it sends with a status
\* that is not an error status.
Responses(bodies) ==
    {Unanswered(e) : e \in TransportErrors}
        \cup {Answered(s, b) : s \in {c \in Statuses : c < 400}, b \in bodies}
        \cup {Answered(s, ErrorBody) : s \in {c \in Statuses : c >= 400}}

(***************************************************************************)
(* Maps with unique keys (HashMap, HeaderMap) as sets of <<key, value>>.    *)
(***************************************************************************)
Keys(m) == {p[1] : p \in m}
Values(m, k) == {p[2] : p \in {q \in m : q[1] = k}}

HashMapInsertKeepFirst(m, k, v) == IF k \in Keys(m) THEN m ELSE m \cup {<<k, v>>}

\* HashMap::insert: the new value replaces the one the key had.
HashMapInsert(m, k, v) == {p \in m : p[1] # k} \cup {<<k, v>>}

\* HeaderMap::insert: the new value replaces the ones the name had.
HeaderInsert(h, name, value) == {p \in h : p[1] # name} \cup {<<name, value>>}

(***************************************************************************)
(* model.rs: decoding of the wire documents (serde, PascalCase names).     *)
(* A JSON object is a record; a field of an Option type may be absent.     *)
(***************************************************************************)
DecodeError == Err("decode")

Has(doc, fields) == fields \subseteq DOMAIN doc
Optional(doc, field) == IF field \in DOMAIN doc THEN Some(doc[field]) ELSE None

\* Vec<T>, from the results of decoding its elements: every element must
\* decode.
DecodeVec(decoded) ==
    IF \E i \in 1..Len(decoded) : IsErr(decoded[i])
    THEN DecodeError
    ELSE Ok([i \in 1..Len(decoded) |-> decoded[i].val])

DecodeUserInfo(doc) ==
    IF Has(doc, {"Name", "ServerId", "Id"})
    THEN Ok([name |-> doc.Name, server_id |-> doc.ServerId, id |-> doc.Id])
    ELSE DecodeError

DecodeAuthResponse(doc) ==
    IF Has(doc, {"User", "AccessToken"}) /\ IsOk(DecodeUserInfo(doc.User))
    THEN Ok([user |-> DecodeUserInfo(doc.User).val, access_token |-> doc.AccessToken])
    ELSE DecodeError

DecodeItem(doc) ==
    IF Has(doc, {"Name", "Id"})
    THEN Ok([name |-> doc.Name, id |-> doc.Id,
             collection_type |-> Optional(doc, "CollectionType")])
    ELSE DecodeError

DecodeArtistItem(doc) ==
    IF Has(doc, {"Name", "Id"})
    THEN Ok([name |-> doc.Name, id |-> doc.Id])
    ELSE DecodeError

DecodeArtistItems(docs) ==
    DecodeVec([i \in 1..Len(docs) |-> DecodeArtistItem(docs[i])])

DecodeMusicAlbum(doc) ==
    IF Has(doc, {"Name", "Id", "Artists", "ArtistItems"})
          /\ IsOk(DecodeArtistItems(doc.ArtistItems))
    THEN Ok([name |-> doc.Name, id |-> doc.Id,
             premiere_date |-> Optional(doc, "PremiereDate"),
             artists |-> doc.Artists,
             artist_items |-> DecodeArtistItems(doc.ArtistItems).val,
             album_artist |-> Optional(doc, "AlbumArtist")])
    ELSE DecodeError

DecodeAudio(doc) ==
    IF Has(doc, {"Name", "Id", "Artists", "ArtistItems"})
          /\ IsOk(DecodeArtistItems(doc.ArtistItems))
    THEN Ok([name |-> doc.Name, id |-> doc.Id,
             premiere_date |-> Optional(doc, "PremiereDate"),
             artists |-> doc.Artists,
             artist_items |-> DecodeArtistItems(doc.ArtistItems).val,
             album_artist |-> Optional(doc, "AlbumArtist"),
             album |-> Optional(doc, "Album"),
             album_id |-> Optional(doc, "AlbumId"),
             runtime_ticks |-> Optional(doc, "RunTimeTicks")])
    ELSE DecodeError

\* enum ItemType, tagged by the field Type.
Variant(variant, data) == [variant |-> variant, data |-> data]

Tagged(variant, decoded) ==
    IF IsErr(decoded) THEN decoded ELSE Ok(Variant(variant, decoded.val))

DecodeItemType(doc) ==
    IF ~Has(doc, {"Type"}) THEN DecodeError
    ELSE CASE doc.Type = "MusicArtist" -> Tagged("MusicArtist", DecodeItem(doc))
           [] doc.Type = "Audio" -> Tagged("Audio", DecodeAudio(doc))
           [] doc.Type = "MusicAlbum" -> Tagged("MusicAlbum", DecodeMusicAlbum(doc))
           [] doc.Type = "Playlist" -> Tagged("Playlist", DecodeItem(doc))
           [] OTHER -> DecodeError

\* ItemsResponse<I>, from the result of decoding Items as Vec<I>.
DecodeItemsResponse(doc, items) ==
    IF Has(doc, {"Items", "TotalRecordCount", "StartIndex"}) /\ IsOk(items)
    THEN Ok([items |-> items.val,
             total_record_count |-> doc.TotalRecordCount,
             start_index |-> doc.StartIndex])
    ELSE DecodeError

\* ItemsResponse<ItemType>
DecodeItemTypes(doc) ==
    IF ~Has(doc, {"Items"}) THEN DecodeError
    ELSE DecodeItemsResponse(doc,
            DecodeVec([i \in 1..Len(doc.Items) |-> DecodeItemType(doc.Items[i])]))

\* ItemsResponse<Item>
DecodeItems(doc) ==
    IF ~Has(doc, {"Items"}) THEN DecodeError
    ELSE DecodeItemsResponse(doc,
            DecodeVec([i \in 1..Len(doc.Items) |-> DecodeItem(doc.Items[i])]))

\* ItemsResponse<Audio>
DecodeAudios(doc) ==
    IF ~Has(doc, {"Items"}) THEN DecodeError
    ELSE DecodeItemsResponse(doc,
            DecodeVec([i \in 1..Len(doc.Items) |-> DecodeAudio(doc.Items[i])]))

\* ItemType::as_str
ItemType_as_str(item) ==
    CASE item.variant = "MusicArtist" -> "MusicArtist"
      [] item.variant = "Audio" -> "Audio"
      [] item.variant = "MusicAlbum" -> "MusicAlbum"
      [] item.variant = "Playlist" -> "Playlist"

\* ImageType::as_str
ImageType_as_str(image_type) ==
    CASE image_type = "Primary" -> "Primary"

\* MusicAlbum::default()
MusicAlbumDefault ==
    [name |-> "", id |-> "", premiere_date |-> None, artists |-> <<>>,
     artist_items |-> <<>>, album_artist |-> None]

(***************************************************************************)
(* request_builder.rs                                                      *)
(***************************************************************************)
Hostname == "localhost"
PkgVersion == "0.1.0"

ClientIdentification(client, device_id) ==
    "MediaBrowser Client=" \o client \o ",Device=" \o Hostname
        \o ",DeviceId=" \o device_id \o ",Version=" \o PkgVersion

\* JellyfinRequestBuilder::new
RequestBuilderNew(method, url) ==
    [body |-> None,
     method |-> method,
     url |-> url,
     headers |-> HeaderInsert(
                    HeaderInsert({}, "User-Agent", "Rust Jellyfin Library"),
                    "X-Emby-Authorization", ClientIdentification("JellyRust", "69"))]

\* JellyfinRequestBuilder::json (serialising a json! value cannot fail)
json(builder, value) ==
    Ok([builder EXCEPT
          !.body = Some(value),
          !.headers = HeaderInsert(builder.headers, "Content-Type", "application/json")])

authKeepExisting(builder, token) ==
    IF "X-Emby-Token" \in Keys(builder.headers) THEN builder
    ELSE [builder EXCEPT !.headers = HeaderInsert(builder.headers, "X-Emby-Token", token)]

\* JellyfinRequestBuilder::auth
auth(builder, token) ==
    [builder EXCEPT !.headers = HeaderInsert(builder.headers, "X-Emby-Token", token)]

\* JellyfinRequestBuilder::header
header(builder, name, value) ==
    [builder EXCEPT !.headers = HeaderInsert(builder.headers, name, value)]

\* JellyfinRequestBuilder::query: every pair of the map is appended to the
\* URL's query pairs.
query(builder, params) ==
    [builder EXCEPT !.url.query = builder.url.query \cup params]

\* Client::execute: the request goes on the wire, the transport fails or the
\* server answers.
execute(request, resp) ==
    IF resp.transport_err # ""
    THEN Err(FromReqwestError(resp.transport_err))
    ELSE Ok([status |-> resp.status, body |-> resp.body])

sendRetrying(builder, resp) ==
    LET executed == execute(builder, resp) IN
    IF IsErr(executed)
    THEN [wire |-> <<builder, builder>>, ret |-> executed]
    ELSE IF is_client_error(executed.val.status) \/ is_server_error(executed.val.status)
         THEN [wire |-> <<builder, builder>>, ret |-> Err(FromStatus(executed.val.status))]
         ELSE [wire |-> <<builder>>, ret |-> executed]

sendRejectingNon2xx(builder, resp) ==
    LET executed == execute(builder, resp) IN
    [wire |-> <<builder>>,
     ret |-> IF IsErr(executed) THEN executed
             ELSE IF executed.val.status < 200 \/ executed.val.status >= 300
                  THEN Err(FromStatus(executed.val.status))
                  ELSE executed]

\* JellyfinRequestBuilder::send: wire is what was transmitted, ret what the
\* method returns.
send(builder, resp) ==
    LET executed == execute(builder, resp) IN
    [wire |-> <<builder>>,
     ret |-> IF IsErr(executed) THEN executed
             ELSE IF is_client_error(executed.val.status)
                       \/ is_server_error(executed.val.status)
                  THEN Err(FromStatus(executed.val.status))
                  ELSE executed]

\* Response::json::<T>(), before T is decoded: the JSON document of the
\* body; a body that cannot be read or is not JSON is a reqwest::Error.
response_json(resp) ==
    IF resp.body.broken THEN Err(FromReqwestError("body"))
    ELSE IF IsNone(resp.body.json) THEN Err(FromReqwestError("decode"))
    ELSE Ok(Unwrap(resp.body.json))

\* Response::json::<T>(), once T is decoded: a document that is not a T is
\* a reqwest::Error too.
deserialized(decoded) ==
    IF IsErr(decoded) THEN Err(FromReqwestError("decode")) ELSE decoded

\* send().await?.json::<UserInfo>().await?
json_UserInfo(ret) ==
    IF IsErr(ret) THEN ret
    ELSE IF IsErr(response_json(ret.val)) THEN response_json(ret.val)
    ELSE deserialized(DecodeUserInfo(response_json(ret.val).val))

\* send().await?.json::<AuthResponse>().await?
json_AuthResponse(ret) ==
    IF IsErr(ret) THEN ret
    ELSE IF IsErr(response_json(ret.val)) THEN response_json(ret.val)
    ELSE deserialized(DecodeAuthResponse(response_json(ret.val).val))

\* send().await?.json::<ItemsResponse<ItemType>>().await?
json_ItemTypes(ret) ==
    IF IsErr(ret) THEN ret
    ELSE IF IsErr(response_json(ret.val)) THEN response_json(ret.val)
    ELSE deserialized(DecodeItemTypes(response_json(ret.val).val))

\* send().await?.json::<ItemsResponse<Item>>().await?
json_Items(ret) ==
    IF IsErr(ret) THEN ret
    ELSE IF IsErr(response_json(ret.val)) THEN response_json(ret.val)
    ELSE deserialized(DecodeItems(response_json(ret.val).val))

\* send().await?.json::<ItemsResponse<Audio>>().await?
json_Audios(ret) ==
    IF IsErr(ret) THEN ret
    ELSE IF IsErr(response_json(ret.val)) THEN response_json(ret.val)
    ELSE deserialized(DecodeAudios(response_json(ret.val).val))

\* Response::text()
response_text(resp) ==
    IF resp.body.broken THEN Err(FromReqwestError("body")) ELSE Ok(resp.body.text)

\* Response::bytes()
response_bytes(resp) ==
    IF resp.body.broken THEN Err(FromReqwestError("body")) ELSE Ok(resp.body.text)

(***************************************************************************)
(* lib.rs: the API client.  self is [server_url, auth_info]; an operation  *)
(* yields what the caller gets back (result), the requests it transmitted  *)
(* (wire), what send() returned (send_result) and the session afterwards   *)
(* (auth_info).                                                            *)
(***************************************************************************)
AuthInfo(token, user_id) == [token |-> token, user_id |-> user_id]

\* Url::parse: a string without a scheme is a relative URL without a base.
UrlParse(s) == IF s.scheme = "" THEN Err(FromUrlParseError) ELSE Ok(s)

\* Url::join with an absolute path: the path replaces the base's.
UrlJoin(base, path) == [query |-> {}, path |-> path, origin |-> base]

\* `?` before send(): the method returns the error, nothing was sent.
NotSent(self, e) ==
    [auth_info |-> self.auth_info, wire |-> <<>>, send_result |-> None,
     result |-> Err(e)]

\* The method returns r after one call of send(), the session untouched.
Sent(self, s, r) ==
    [auth_info |-> self.auth_info, wire |-> s.wire, send_result |-> Some(s.ret),
     result |-> r]

make_requestNoToken(self, method, path) ==
    RequestBuilderNew(method, UrlJoin(self.server_url, path))

\* JellyfinApi::make_request
make_request(self, method, path) ==
    LET builder == RequestBuilderNew(method, UrlJoin(self.server_url, path)) IN
    IF IsSome(self.auth_info)
    THEN auth(builder, Unwrap(self.auth_info).token)
    ELSE builder

\* JellyfinApi::get
get(self, path) == make_request(self, "GET", path)

\* JellyfinApi::post
post(self, path) == make_request(self, "POST", path)

authenticate_with_tokenFieldwise(self, token, resp) ==
    LET s == send(auth(get(self, "/Users/Me"), token), resp)
        user_info == json_UserInfo(s.ret)
    IN  IF IsErr(user_info)
        THEN [auth_info |-> IF IsSome(self.auth_info)
                            THEN Some(AuthInfo(token, Unwrap(self.auth_info).user_id))
                            ELSE None,
              wire |-> s.wire, send_result |-> Some(s.ret), result |-> user_info]
        ELSE [auth_info |-> Some(AuthInfo(token, user_info.val.id)),
              wire |-> s.wire, send_result |-> Some(s.ret), result |-> Ok(Unit)]

\* JellyfinApi::authenticate_with_token
authenticate_with_token(self, token, resp) ==
    LET s == send(auth(get(self, "/Users/Me"), token), resp)
        user_info == json_UserInfo(s.ret)
    IN  IF IsErr(user_info)
        THEN Sent(self, s, user_info)
        ELSE [auth_info |-> Some(AuthInfo(token, user_info.val.id)),
              wire |-> s.wire, send_result |-> Some(s.ret), result |-> Ok(Unit)]

\* JellyfinApi::authenticate_with_password
authenticate_with_password(self, username, password, resp) ==
    LET x_emby_authorization == ClientIdentification("jellyfin-rust", "uuid")
        body == json(post(self, "/Users/AuthenticateByName"),
                     [Username |-> username, Pw |-> password])
        s == send(header(body.val, "X-Emby-Authorization", x_emby_authorization), resp)
        auth_response == json_AuthResponse(s.ret)
    IN  IF IsErr(auth_response)
        THEN Sent(self, s, auth_response)
        ELSE [auth_info |-> Some(AuthInfo(auth_response.val.access_token,
                                          auth_response.val.user.id)),
              wire |-> s.wire, send_result |-> Some(s.ret), result |-> Ok(Unit)]

\* JellyfinApi::ping
ping(self, resp) ==
    LET s == send(get(self, "/System/Ping"), resp)
        text == IF IsErr(s.ret) THEN s.ret ELSE response_text(s.ret.val)
    IN  IF IsErr(text) THEN Sent(self, s, text)
        ELSE IF text.val = "\"Jellyfin Server\"" THEN Sent(self, s, Ok(Unit))
        ELSE Sent(self, s, Err(ServerError))

\* Vec<String>::join
RECURSIVE Join(_, _)
Join(strs, sep) ==
    IF Len(strs) = 0 THEN ""
    ELSE IF Len(strs) = 1 THEN strs[1]
    ELSE strs[1] \o sep \o Join(Tail(strs), sep)

\* for (k, v) in extra_params { params.insert(k, v); }
RECURSIVE InsertAll(_, _)
InsertAll(params, pairs) ==
    IF Len(pairs) = 0 THEN params
    ELSE InsertAll(HashMapInsert(params, pairs[1][1], pairs[1][2]), Tail(pairs))

\* The parameter map get_items builds.
get_items_params(parent_id, item_types, recursive, limit, extra_params) ==
    LET p0 == {}
        p1 == IF IsSome(parent_id)
              THEN HashMapInsert(p0, "ParentId", Unwrap(parent_id)) ELSE p0
        p2 == IF Len(item_types) # 0
              THEN HashMapInsert(p1, "IncludeItemTypes",
                     Join([i \in 1..Len(item_types) |-> ItemType_as_str(item_types[i])], ","))
              ELSE p1
        p3 == IF recursive THEN HashMapInsert(p2, "Recursive", "True") ELSE p2
        p4 == HashMapInsert(p3, "Limit", ToString(limit))
    IN  InsertAll(p4, extra_params)

\* JellyfinApi::get_items
get_items(self, parent_id, item_types, recursive, limit, extra_params, resp) ==
    LET params == get_items_params(parent_id, item_types, recursive, limit, extra_params) IN
    IF IsNone(self.auth_info) THEN NotSent(self, AuthorizationError)
    ELSE LET s == send(query(get(self, "/Users/" \o Unwrap(self.auth_info).user_id \o "/Items"),
                             params), resp)
         IN  Sent(self, s, json_ItemTypes(s.ret))

get_artistsChecked(self, library_id, resp) ==
    LET params == IF IsSome(library_id)
                  THEN HashMapInsert({}, "ParentId", Unwrap(library_id)) ELSE {} IN
    IF IsNone(self.auth_info) THEN NotSent(self, AuthorizationError)
    ELSE LET s == send(query(get(self, "/Artists"), params), resp)
         IN  Sent(self, s, json_Items(s.ret))

\* JellyfinApi::get_artists
get_artists(self, library_id, resp) ==
    LET params == IF IsSome(library_id)
                  THEN HashMapInsert({}, "ParentId", Unwrap(library_id)) ELSE {}
        s == send(query(get(self, "/Artists"), params), resp)
    IN  Sent(self, s, json_Items(s.ret))

\* Iterator<Item = Result<T, E>>::collect::<Result<Vec<T>, E>>()
RECURSIVE collect(_)
collect(results) ==
    IF Len(results) = 0 THEN Ok(<<>>)
    ELSE IF IsErr(results[1]) THEN results[1]
    ELSE LET rest == collect(Tail(results)) IN
         IF IsErr(rest) THEN rest ELSE Ok(<<results[1].val>> \o rest.val)

\* The limit get_albums asks for.
AlbumLimit == 200

as_albumLenient(item) == Ok(item.data)

\* |item| match item { ItemType::MusicAlbum(album) => Ok(album), _ => Err(ServerError) }
as_album(item) ==
    IF item.variant = "MusicAlbum" THEN Ok(item.data) ELSE Err(ServerError)

\* JellyfinApi::get_albums
get_albums(self, artist_ids, resp) ==
    LET r == get_items(self, None, <<Variant("MusicAlbum", MusicAlbumDefault)>>, TRUE,
                       AlbumLimit, <<<<"ArtistIds", Join(artist_ids, ",")>>>>, resp)
    IN  IF IsErr(r.result) THEN r
        ELSE [r EXCEPT !.result =
                 collect([i \in 1..Len(r.result.val.items) |-> as_album(r.result.val.items[i])])]

\* JellyfinApi::get_playlist_items
get_playlist_items(self, playlist_id, resp) ==
    IF IsNone(self.auth_info) THEN NotSent(self, AuthorizationError)
    ELSE LET user_id == Unwrap(self.auth_info).user_id
             params == HashMapInsert({}, "UserId", user_id)
             s == send(query(get(self, "/Playlists/" \o playlist_id \o "/Items"), params), resp)
             r == json_Audios(s.ret)
         IN  IF IsErr(r) THEN Sent(self, s, r) ELSE Sent(self, s, Ok(r.val.items))

get_item_imageSwallowing(self, item_id, image_type, max_size, resp) ==
    LET params == HashMapInsert(HashMapInsert({}, "maxWidth", ToString(max_size[1])),
                                "maxHeight", ToString(max_size[2]))
        s == send(query(get(self, "/Items/" \o item_id \o "/Images/"
                                     \o ImageType_as_str(image_type)), params), resp)
    IN  IF IsOk(s.ret)
        THEN LET bytes == response_bytes(s.ret.val) IN
             IF IsErr(bytes) THEN Sent(self, s, bytes) ELSE Sent(self, s, Ok(Some(bytes.val)))
        ELSE IF s.ret.err.kind \in {"NotFound", "UnhandledError"} THEN Sent(self, s, Ok(None))
        ELSE Sent(self, s, s.ret)

\* JellyfinApi::get_item_image
get_item_image(self, item_id, image_type, max_size, resp) ==
    LET params == HashMapInsert(HashMapInsert({}, "maxWidth", ToString(max_size[1])),
                                "maxHeight", ToString(max_size[2]))
        s == send(query(get(self, "/Items/" \o item_id \o "/Images/"
                                     \o ImageType_as_str(image_type)), params), resp)
    IN  IF IsOk(s.ret)
        THEN LET bytes == response_bytes(s.ret.val) IN
             IF IsErr(bytes) THEN Sent(self, s, bytes) ELSE Sent(self, s, Ok(Some(bytes.val)))
        ELSE IF s.ret.err = NotFound THEN Sent(self, s, Ok(None))
        ELSE Sent(self, s, s.ret)

\* JellyfinApi::get_views
get_views(self, resp) ==
    IF IsNone(self.auth_info) THEN NotSent(self, AuthorizationError)
    ELSE LET s == send(get(self, "/Users/" \o Unwrap(self.auth_info).user_id \o "/Views"), resp)
         IN  Sent(self, s, json_Items(s.ret))

\* JellyfinApi::get_audio_stream
get_audio_stream(self, item_id, resp) ==
    IF IsNone(self.auth_info) THEN NotSent(self, AuthorizationError)
    ELSE LET params == HashMapInsert(HashMapInsert({}, "Container", "flac,mp3,ogg,wav"),
                                     "UserId", Unwrap(self.auth_info).user_id)
             s == send(query(get(self, "/Audio/" \o item_id \o "/universal"), params), resp)
         IN  Sent(self, s, s.ret)

\* JellyfinApi::new: the client built, or the URL's parse error.
new(url) ==
    LET parsed == UrlParse(url) IN
    IF IsErr(parsed) THEN parsed
    ELSE Ok([server_url |-> parsed.val, auth_info |-> None])

\* JellyfinApi::new_with_auth_info
new_with_auth_info(url, info) ==
    LET api == new(url) IN
    IF IsErr(api) THEN api ELSE Ok([api.val EXCEPT !.auth_info = Some(info)])

\* What a constructor yields: the client built (api) when it returns one,
\* and the requests it transmitted.
Built(api) ==
    [wire |-> <<>>, send_result |-> None, result |-> Ok(Unit), api |-> Some(api)]

\* Self::new(server_url)?
NotBuilt(e) ==
    [wire |-> <<>>, send_result |-> None, result |-> Err(e), api |-> None]

\* api.authenticate_with_..(..).await?; Ok(api)
Authenticated(api, out) ==
    [wire |-> out.wire, send_result |-> out.send_result, result |-> out.result,
     api |-> IF IsErr(out.result) THEN None
             ELSE Some([api EXCEPT !.auth_info = out.auth_info])]

\* JellyfinApi::new_with_password
new_with_password(url, username, password, resp) ==
    LET api == new(url) IN
    IF IsErr(api) THEN NotBuilt(api.err)
    ELSE Authenticated(api.val, authenticate_with_password(api.val, username, password, resp))

\* JellyfinApi::new_with_token
new_with_token(url, token, resp) ==
    LET api == new(url) IN
    IF IsErr(api) THEN NotBuilt(api.err)
    ELSE Authenticated(api.val, authenticate_with_token(api.val, token, resp))

\* The caller of a constructor goes on with the client it returned, or with
\* the client it already had (self) when the constructor failed.
InUse(self, built) ==
    [wire |-> built.wire, send_result |-> built.send_result, result |-> built.result,
     client |-> IF IsSome(built.api) THEN Unwrap(built.api) ELSE self]

(***************************************************************************)
(* The inputs: what callers pass and what the server answers.              *)
(***************************************************************************)
ServerUrls == {[scheme |-> "http", host |-> "jf.local"], [scheme |-> "", host |-> "jf.local"]}
Tokens == {"t1", "t2"}
UserIds == {"u1", "u2"}
Sessions == {AuthInfo(t, u) : t \in Tokens, u \in UserIds}

JsonBody(doc) == Body("json", Some(doc))

UserInfoDoc(u) == [Name |-> "alice", ServerId |-> "srv", Id |-> u]
AuthResponseDoc(t, u) == [User |-> UserInfoDoc(u), AccessToken |-> t]
ItemsDoc(items) == [TotalRecordCount |-> Len(items), StartIndex |-> 0, Items |-> items]
AlbumDoc(id) ==
    [Name |-> "album", Id |-> id,
     ArtistItems |-> <<[Name |-> "x", Id |-> "ar1"]>>, Artists |-> <<"x">>,
     Type |-> "MusicAlbum"]
AudioDoc(id) ==
    [Name |-> "song", Id |-> id,
     ArtistItems |-> <<[Name |-> "x", Id |-> "ar1"]>>, Artists |-> <<"x">>,
     Type |-> "Audio", RunTimeTicks |-> 10]
ArtistDoc(id) == [Name |-> "x", Id |-> id, Type |-> "MusicArtist"]
PlaylistDoc(id) == [Name |-> "mix", Id |-> id, Type |-> "Playlist"]
MovieDoc(id) == [Name |-> "film", Id |-> id, Type |-> "Movie"]

\* Sequences of at most n elements of S.
SeqUpTo(S, n) == UNION {[1..k -> S] : k \in 0..n}

UserInfoBodies ==
    {BrokenBody, MalformedBody} \cup {JsonBody(UserInfoDoc(u)) : u \in UserIds}
AuthResponseBodies ==
    {BrokenBody, JsonBody(UserInfoDoc("u1")),
     JsonBody(AuthResponseDoc("t1", "u1")), JsonBody(AuthResponseDoc("t2", "u2"))}
PingBodies ==
    {BrokenBody, Body("\"Jellyfin Server\"", None), Body("\"jellyfin server\"", None),
     Body("Jellyfin Server", None)}
ItemListBodies ==
    {MalformedBody, JsonBody(ItemsDoc(<<AlbumDoc("a1"), AudioDoc("s1")>>))}
ArtistListBodies ==
    {BrokenBody, MalformedBody, JsonBody(ItemsDoc(<<ArtistDoc("ar1")>>))}
AudioListBodies ==
    {BrokenBody, JsonBody(ItemsDoc(<<ArtistDoc("ar1")>>)),
     JsonBody(ItemsDoc(<<AudioDoc("s1"), AudioDoc("s2")>>))}
ViewListBodies ==
    {BrokenBody, MalformedBody,
     JsonBody(ItemsDoc(<<[Name |-> "Music", Id |-> "lib1", CollectionType |-> "music"]>>))}
ImageBodies == {BrokenBody, Body("PNG", None)}
StreamBodies == {Body("FLAC", None)}

AuthResponses == Responses(AuthResponseBodies)
UserInfoResponses == Responses(UserInfoBodies)
PingResponses == Responses(PingBodies)
ItemListResponses == Responses(ItemListBodies)
ArtistListResponses == Responses(ArtistListBodies)
AudioListResponses == Responses(AudioListBodies)
ImageResponses == Responses(ImageBodies)
ViewListResponses == Responses(ViewListBodies)
StreamResponses == Responses(StreamBodies)

ItemDocs == {AlbumDoc("a1"), AlbumDoc("a2"), AudioDoc("s1"), ArtistDoc("ar1"), PlaylistDoc("pl1")}
AlbumResponses ==
    Responses({BrokenBody, JsonBody(ItemsDoc(<<MovieDoc("m1")>>))})
        \cup {Answered(200, JsonBody(ItemsDoc(items))) : items \in SeqUpTo(ItemDocs, MaxItems)}

ParentIds == {None, Some("lib1")}
ItemTypeLists ==
    {<<>>, <<Variant("Audio", MusicAlbumDefault), Variant("MusicAlbum", MusicAlbumDefault)>>}
ExtraParams(keys, values, n) == SeqUpTo(keys \X values, n)
LimitExtraParams == ExtraParams({"Limit"}, {"7"}, MaxExtra)

(***************************************************************************)
(* The state machine.                                                      *)
(***************************************************************************)
Self == [server_url |-> server_url, auth_info |-> auth_info]

\* A method of the client was invoked and returned out.
Invoked(name, a, resp, out) ==
    /\ op' = name
    /\ args' = a
    /\ wire' = out.wire
    /\ response' = IF Len(out.wire) = 0 THEN None ELSE Some(resp)
    /\ send_result' = out.send_result
    /\ result' = out.result
    /\ auth_info' = out.auth_info
    /\ UNCHANGED server_url

\* A constructor was invoked and the caller goes on with out.client.
Constructed(name, a, resp, out) ==
    /\ op' = name
    /\ args' = a
    /\ wire' = out.wire
    /\ response' = IF Len(out.wire) = 0 THEN None ELSE Some(resp)
    /\ send_result' = out.send_result
    /\ result' = out.result
    /\ server_url' = out.client.server_url
    /\ auth_info' = out.client.auth_info

Init ==
    /\ server_url = [scheme |-> "http", host |-> "jf.local"]
    /\ auth_info = None
    /\ op = "new"
    /\ args = [server_url |-> [scheme |-> "http", host |-> "jf.local"]]
    /\ wire = <<>>
    /\ response = None
    /\ send_result = None
    /\ result = Ok(Unit)

New ==
    \E url \in ServerUrls :
        LET api == new(url) IN
        Constructed("new", [server_url |-> url], Unanswered("connect"),
                    InUse(Self, IF IsErr(api) THEN NotBuilt(api.err) ELSE Built(api.val)))

NewWithAuthInfo ==
    \E url \in ServerUrls, info \in Sessions :
        LET api == new_with_auth_info(url, info) IN
        Constructed("new_with_auth_info", [server_url |-> url, auth_info |-> info],
                    Unanswered("connect"),
                    InUse(Self, IF IsErr(api) THEN NotBuilt(api.err) ELSE Built(api.val)))

NewWithPassword ==
    \E url \in ServerUrls, resp \in AuthResponses :
        Constructed("new_with_password",
                    [server_url |-> url, username |-> "alice", password |-> "pw"], resp,
                    InUse(Self, new_with_password(url, "alice", "pw", resp)))

NewWithToken ==
    \E url \in ServerUrls, token \in Tokens, resp \in UserInfoResponses :
        Constructed("new_with_token", [server_url |-> url, token |-> token], resp,
                    InUse(Self, new_with_token(url, token, resp)))

AuthenticateWithToken ==
    \E token \in Tokens, resp \in UserInfoResponses :
        Invoked("authenticate_with_token", [token |-> token], resp,
                authenticate_with_token(Self, token, resp))

AuthenticateWithPassword ==
    \E resp \in AuthResponses :
        Invoked("authenticate_with_password", [username |-> "alice", password |-> "pw"], resp,
                authenticate_with_password(Self, "alice", "pw", resp))

Ping ==
    \E resp \in PingResponses :
        Invoked("ping", [none |-> Unit], resp, ping(Self, resp))

GetItems(parent_id, item_types, recursive, limit, extra_params, resp) ==
    Invoked("get_items",
            [parent_id |-> parent_id, item_types |-> item_types, recursive |-> recursive,
             limit |-> limit, extra_params |-> extra_params],
            resp,
            get_items(Self, parent_id, item_types, recursive, limit, extra_params, resp))

GetItemsCall ==
    \E parent_id \in ParentIds, recursive \in BOOLEAN,
       extra_params \in LimitExtraParams,
       resp \in ItemListResponses :
        GetItems(parent_id, <<Variant("MusicAlbum", MusicAlbumDefault)>>, recursive, 50,
                 extra_params, resp)

GetArtists ==
    \E library_id \in ParentIds, resp \in ArtistListResponses :
        Invoked("get_artists", [library_id |-> library_id], resp,
                get_artists(Self, library_id, resp))

GetAlbums ==
    \E resp \in AlbumResponses :
        Invoked("get_albums", [artist_ids |-> <<"ar1", "ar2">>], resp,
                get_albums(Self, <<"ar1", "ar2">>, resp))

GetPlaylistItems ==
    \E resp \in AudioListResponses :
        Invoked("get_playlist_items", [playlist_id |-> "pl1"], resp,
                get_playlist_items(Self, "pl1", resp))

GetItemImage ==
    \E resp \in ImageResponses :
        Invoked("get_item_image",
                [image_type |-> "Primary", item_id |-> "a1", max_size |-> <<300, 200>>], resp,
                get_item_image(Self, "a1", "Primary", <<300, 200>>, resp))

GetViews ==
    \E resp \in ViewListResponses :
        Invoked("get_views", [none |-> Unit], resp, get_views(Self, resp))

GetAudioStream ==
    \E resp \in StreamResponses :
        Invoked("get_audio_stream", [item_id |-> "s1"], resp,
                get_audio_stream(Self, "s1", resp))

Next ==
    \/ New
    \/ NewWithAuthInfo
    \/ NewWithPassword
    \/ NewWithToken
    \/ AuthenticateWithToken
    \/ AuthenticateWithPassword
    \/ Ping
    \/ GetItemsCall
    \/ GetArtists
    \/ GetAlbums
    \/ GetPlaylistItems
    \/ GetItemImage
    \/ GetViews
    \/ GetAudioStream

Spec == Init /\ [][Next]_vars

(***************************************************************************)
(* The parameter map of get_items, on its own: the client is in any state  *)
(* a constructor leaves it in and get_items is invoked once, with every    *)
(* combination of built-in and extra parameters.                           *)
(***************************************************************************)
ExtraKeys == {"ParentId", "IncludeItemTypes", "Recursive", "Limit", "SortBy"}
ExtraValues == {"7", "x"}
AllExtraParams == ExtraParams(ExtraKeys, ExtraValues, MaxExtra)
ItemsSpecResponses ==
    {Unanswered("connect"), Answered(401, ErrorBody),
     Answered(200, JsonBody(ItemsDoc(<<AlbumDoc("a1"), AudioDoc("s1")>>)))}

InitItems ==
    /\ server_url = [scheme |-> "http", host |-> "jf.local"]
    /\ auth_info \in {None, Some(AuthInfo("t1", "u1"))}
    /\ op = "new"
    /\ args = [server_url |-> [scheme |-> "http", host |-> "jf.local"]]
    /\ wire = <<>>
    /\ response = None
    /\ send_result = None
    /\ result = Ok(Unit)

GetItemsOnce ==
    /\ op = "new"
    /\ \E parent_id \in ParentIds, item_types \in ItemTypeLists, recursive \in BOOLEAN,
          limit \in {7, 50}, extra_params \in AllExtraParams, resp \in ItemsSpecResponses :
           GetItems(parent_id, item_types, recursive, limit, extra_params, resp)

NextItems == GetItemsOnce

SpecItems == InitItems /\ [][NextItems]_vars

(***************************************************************************)
(* Vocabulary of the properties.                                           *)
(***************************************************************************)
\* The 2xx class of status codes.
is_success(code) == 200 <= code /\ code < 300

\* Operations that read the session's user id.
UserIdOps == {"get_items", "get_albums", "get_playlist_items", "get_views", "get_audio_stream"}
\* Operations that send their request whether or not there is a session.
SessionlessOps == {"get_artists", "get_item_image"}
BrowseOps == UserIdOps \cup SessionlessOps
AuthOps == {"authenticate_with_token", "authenticate_with_password"}
Constructors == {"new", "new_with_auth_info", "new_with_password", "new_with_token"}

\* The server answered the request of the last invocation.
WasAnswered == IsSome(response) /\ Unwrap(response).transport_err = ""
AnsweredStatus == Unwrap(response).status
TokenHeader(request) == Values(request.headers, "X-Emby-Token")
FailedWith(r, e) == IsErr(r) /\ r.err = e

(***************************************************************************)
(* C1                                                                      *)
(***************************************************************************)
\* C1 (as stated): every browsing operation (list items, list artists, list
\* albums, list playlist items, fetch item image, list views, audio stream)
\* invoked without a session fails with AuthorizationError, whatever the
\* server answers.
C1_AllRequireSession ==
    [][(op' \in BrowseOps /\ IsNone(auth_info)
          /\ (Len(wire') = 0 \/ Unwrap(response').transport_err = ""))
         => FailedWith(result', AuthorizationError)]_vars

\* C1 (amended): without a session, the operations that need the user id
\* fail with AuthorizationError and send nothing; list artists and fetch item
\* image send their request, without a token, and fail with
\* AuthorizationError exactly when the server answers 401.
C1_UserIdOpsRequireSession ==
    [][IsNone(auth_info) =>
         /\ op' \in UserIdOps =>
              /\ FailedWith(result', AuthorizationError)
              /\ Len(wire') = 0
         /\ op' \in SessionlessOps =>
              /\ Len(wire') = 1
              /\ TokenHeader(wire'[1]) = {}
              /\ FailedWith(result', AuthorizationError)
                   <=> (Unwrap(response').transport_err = "" /\ Unwrap(response').status = 401)
      ]_vars

C1_Witness ==
    /\ op = "get_artists"
    /\ IsNone(auth_info)
    /\ IsOk(result)
    /\ Len(wire) = 1

(***************************************************************************)
(* C2                                                                      *)
(***************************************************************************)
\* C2 (as stated): send() returns an error for every answered status that is
\* not 2xx, and no error for a 2xx status.
C2_ErrorIffNot2xx ==
    WasAnswered =>
        (IsErr(Unwrap(send_result)) <=> ~is_success(AnsweredStatus))

\* C2 (amended): send() returns an error exactly for the 4xx and 5xx
\* statuses, and that error is one of the status kinds; for every other
\* status (1xx, 2xx, 3xx) it returns the response as received.
C2_ErrorIff4xx5xx ==
    WasAnswered =>
        IF is_client_error(AnsweredStatus) \/ is_server_error(AnsweredStatus)
        THEN /\ IsErr(Unwrap(send_result))
             /\ Unwrap(send_result).err.kind \in
                  {"AuthorizationError", "NotFound", "BadRequest", "ServerError", "UnhandledError"}
        ELSE /\ IsOk(Unwrap(send_result))
             /\ Unwrap(send_result).val.status = AnsweredStatus
             /\ Unwrap(send_result).val.body = Unwrap(response).body

C2_Witness ==
    /\ WasAnswered
    /\ AnsweredStatus = 304
    /\ IsOk(Unwrap(send_result))

(***************************************************************************)
(* C3                                                                      *)
(***************************************************************************)
\* C3: for a 4xx/5xx answer send() fails with AuthorizationError for 401,
\* NotFound for 404, BadRequest for 400, ServerError for 500, and with
\* UnhandledError carrying the status text for any other code.
C3_StatusMapping ==
    (WasAnswered /\ AnsweredStatus >= 400) =>
        /\ IsErr(Unwrap(send_result))
        /\ LET e == Unwrap(send_result).err IN
           /\ AnsweredStatus = 401 => e.kind = "AuthorizationError"
           /\ AnsweredStatus = 404 => e.kind = "NotFound"
           /\ AnsweredStatus = 400 => e.kind = "BadRequest"
           /\ AnsweredStatus = 500 => e.kind = "ServerError"
           /\ AnsweredStatus \notin {401, 404, 400, 500} => e.kind = "UnhandledError"
           /\ AnsweredStatus = 403 => e.text = "403 Forbidden"
           /\ AnsweredStatus = 503 => e.text = "503 Service Unavailable"

C3_Witness ==
    /\ WasAnswered
    /\ AnsweredStatus = 403
    /\ Unwrap(send_result) = Err(UnhandledError("403 Forbidden"))

(***************************************************************************)
(* C4                                                                      *)
(***************************************************************************)
\* The request of a user-id operation names user_id: in the path of list
\* items, list albums and list views, in the UserId parameter of list
\* playlist items and audio stream.
NamesUser(name, request, user_id) ==
    CASE name \in {"get_items", "get_albums"} ->
             request.url.path = "/Users/" \o user_id \o "/Items"
      [] name = "get_views" -> request.url.path = "/Users/" \o user_id \o "/Views"
      [] name \in {"get_playlist_items", "get_audio_stream"} ->
             Values(request.url.query, "UserId") = {user_id}

\* The invocation is an authentication that succeeded.
AuthSucceeded(name, r) == name \in AuthOps \cup Constructors /\ IsOk(r)

\* C4: the identity request of authenticate_with_token(t) carries t as its
\* token whatever the previous session was; when it succeeds with user id u
\* the session is exactly (t, u); and while the session is (t, u) every
\* request of a browsing operation carries t, names u where the operation
\* names a user, and the session stays (t, u) until another authentication
\* succeeds.
C4_TokenSessionReused ==
    [][/\ op' \in {"authenticate_with_token", "new_with_token"} /\ Len(wire') = 1 =>
            TokenHeader(wire'[1]) = {args'.token}
       /\ op' \in {"authenticate_with_token", "new_with_token"} /\ IsOk(result') =>
            auth_info' = Some(AuthInfo(args'.token, Unwrap(Unwrap(response').body.json).Id))
       /\ \A t \in Tokens, u \in UserIds :
            auth_info = Some(AuthInfo(t, u)) =>
               /\ op' \in BrowseOps =>
                    /\ Len(wire') = 1
                    /\ TokenHeader(wire'[1]) = {t}
                    /\ op' \in UserIdOps => NamesUser(op', wire'[1], u)
               /\ ~AuthSucceeded(op', result') => auth_info' = Some(AuthInfo(t, u))
      ]_vars

C4_Witness ==
    /\ op = "authenticate_with_token"
    /\ IsOk(result)
    /\ args.token = "t2"
    /\ auth_info = Some(AuthInfo("t2", "u1"))
    /\ TokenHeader(wire[1]) = {"t2"}

(***************************************************************************)
(* C5                                                                      *)
(***************************************************************************)
\* C5 (as stated): the requests of password authentication and of ping never
\* carry an X-Emby-Token header.
C5_NeverCarryToken ==
    (op \in {"authenticate_with_password", "ping"} /\ Len(wire) = 1) =>
        TokenHeader(wire[1]) = {}

\* C5 (amended): the requests of password authentication and of ping carry
\* no X-Emby-Token header when the client has no session, and carry the
\* session's token when it has one; the request of new_with_password, made
\* by a fresh client, carries none.
C5_CarrySessionToken ==
    [][/\ op' \in {"authenticate_with_password", "ping"} =>
            /\ Len(wire') = 1
            /\ IsNone(auth_info) => TokenHeader(wire'[1]) = {}
            /\ IsSome(auth_info) => TokenHeader(wire'[1]) = {Unwrap(auth_info).token}
       /\ op' = "new_with_password" /\ Len(wire') = 1 => TokenHeader(wire'[1]) = {}
      ]_vars

C5_Witness ==
    /\ op = "ping"
    /\ IsSome(auth_info)
    /\ Len(wire) = 1
    /\ TokenHeader(wire[1]) = {Unwrap(auth_info).token}

(***************************************************************************)
(* C6                                                                      *)
(***************************************************************************)
\* C6: the session of a client changes only in an authenticate_with_token or
\* authenticate_with_password call that succeeds, and then becomes the whole
\* pair of that call (the token given and the user id answered, or the
\* access token and user id answered); a failed authentication, ping and the
\* browsing operations leave it as it was.
C6_SessionFrame ==
    [][op' \notin Constructors =>
         IF op' \in AuthOps /\ IsOk(result')
         THEN LET doc == Unwrap(Unwrap(response').body.json) IN
              auth_info' = IF op' = "authenticate_with_token"
                           THEN Some(AuthInfo(args'.token, doc.Id))
                           ELSE Some(AuthInfo(doc.AccessToken, doc.User.Id))
         ELSE auth_info' = auth_info
      ]_vars

C6_Witness ==
    /\ op = "authenticate_with_token"
    /\ IsErr(result)
    /\ IsSome(auth_info)
    /\ Unwrap(auth_info).token # args.token

(***************************************************************************)
(* C7                                                                      *)
(***************************************************************************)
\* C7: fetch item image returns no image exactly when the server answers
\* 404; for a success status whose body arrives it returns the bytes; every
\* other failure reaches the caller as the error send() produced, a
\* transport error as RequestError.
C7_NoImageIff404 ==
    op = "get_item_image" =>
        /\ Len(wire) = 1
        /\ (IsOk(result) /\ result.val = None) <=> (WasAnswered /\ AnsweredStatus = 404)
        /\ (WasAnswered /\ is_success(AnsweredStatus) /\ ~Unwrap(response).body.broken) =>
              (IsOk(result) /\ result.val = Some(Unwrap(response).body.text))
        /\ (WasAnswered /\ AnsweredStatus >= 400 /\ AnsweredStatus # 404) =>
              (IsErr(result) /\ result = Unwrap(send_result)
                 /\ result.err.kind \in {"AuthorizationError", "BadRequest", "ServerError",
                                         "UnhandledError"})
        /\ ~WasAnswered => (IsErr(result) /\ result.err.kind = "RequestError")

C7_Witness ==
    /\ op = "get_item_image"
    /\ WasAnswered
    /\ AnsweredStatus = 404
    /\ result = Ok(None)

(***************************************************************************)
(* C8                                                                      *)
(***************************************************************************)
\* The value of the last entry of pairs whose key is k.
LastValue(pairs, k) ==
    LET last == CHOOSE i \in 1..Len(pairs) :
                    /\ pairs[i][1] = k
                    /\ \A j \in (i + 1)..Len(pairs) : pairs[j][1] # k
    IN  pairs[last][2]

ExtraKeysOf(pairs) == {pairs[i][1] : i \in 1..Len(pairs)}

\* C8: the request of list items carries exactly one value for every key;
\* for a key given in the extra parameters it is the value of the last
\* extra entry with that key, also when the key is a built-in one; a
\* built-in key that no extra entry names keeps its built-in value.
C8_LastInsertWins ==
    (op = "get_items" /\ Len(wire) = 1) =>
        LET q == wire[1].url.query
            extra == args.extra_params
        IN  /\ \A k \in Keys(q) : Cardinality(Values(q, k)) = 1
            /\ \A k \in ExtraKeysOf(extra) : Values(q, k) = {LastValue(extra, k)}
            /\ "Limit" \notin ExtraKeysOf(extra) => Values(q, "Limit") = {ToString(args.limit)}
            /\ ("Recursive" \notin ExtraKeysOf(extra) /\ args.recursive) =>
                   Values(q, "Recursive") = {"True"}
            /\ ("ParentId" \notin ExtraKeysOf(extra) /\ IsSome(args.parent_id)) =>
                   Values(q, "ParentId") = {Unwrap(args.parent_id)}

C8_Witness ==
    /\ op = "get_items"
    /\ Len(wire) = 1
    /\ args.limit = 50
    /\ args.extra_params = <<<<"Limit", "x">>, <<"Limit", "7">>>>
    /\ Values(wire[1].url.query, "Limit") = {"7"}

(***************************************************************************)
(* C9                                                                      *)
(***************************************************************************)
ItemKinds == {"MusicArtist", "Audio", "MusicAlbum", "Playlist"}

\* The documents of the items of a 200 answer that is an item list.
AnsweredItems == Unwrap(Unwrap(response).body.json).Items

IsItemListAnswer ==
    /\ WasAnswered
    /\ AnsweredStatus = 200
    /\ ~Unwrap(response).body.broken
    /\ IsSome(Unwrap(response).body.json)
    /\ \A i \in 1..Len(AnsweredItems) : AnsweredItems[i].Type \in ItemKinds

\* C9: given an item list, list albums returns the albums in the server's
\* order when every item is a MusicAlbum, and fails with ServerError when
\* some item, anywhere in the list, is of another kind.
C9_AlbumsOnly ==
    (op = "get_albums" /\ IsItemListAnswer) =>
        IF \A i \in 1..Len(AnsweredItems) : AnsweredItems[i].Type = "MusicAlbum"
        THEN /\ IsOk(result)
             /\ Len(result.val) = Len(AnsweredItems)
             /\ \A i \in 1..Len(AnsweredItems) : result.val[i].id = AnsweredItems[i].Id
        ELSE FailedWith(result, ServerError)

C9_Witness ==
    /\ op = "get_albums"
    /\ IsItemListAnswer
    /\ Len(AnsweredItems) = 2
    /\ AnsweredItems[1].Type = "MusicAlbum"
    /\ AnsweredItems[2].Type = "Audio"
    /\ FailedWith(result, ServerError)

====
